---- MODULE Spec2Model ----
(***************************************************************************)
(* The `redis` enrichment table of src/enrichment_tables/redis.rs: the     *)
(* table constructor, the background task it spawns (connect, bootstrap,   *)
(* psubscribe, consume push messages, retry after RETRY_AFTER), the cache  *)
(* behind its RwLock, and the lookups of the Table trait.                  *)
(***************************************************************************)
EXTENDS Integers, Sequences, FiniteSets, TLC

\* ------------------------------------------------------------------ bounds
\* Connection attempts the background task makes in one run of the model.
MaxAttempts == 2
\* Largest number N of leading failed connection attempts of the retry scenario.
MaxFailN == 1
\* Changes the external store undergoes in one run of the model.
MaxChanges == 1
\* Push messages in flight on the unbounded channel.
MaxQueue == 1
MaxHandles == 2

\* ------------------------------------------------------------------ data
\* const RETRY_AFTER: Duration = Duration::from_secs(5), in seconds.
RETRY_AFTER == 5

\* Hash keys of the external store, field names and field values.
StoreKeys == {"A", "B"}
Fields == {"f", "g"}
Values == {1, 2}
\* A field a hash does not contain.
NoVal == 0

\* Option<HashMap<String, String>> as HGETALL returns it: None, or the hash.
None == [some |-> FALSE, map |-> [f \in Fields |-> NoVal]]
Some(m) == [some |-> TRUE, map |-> m]
Hashes == [Fields -> Values \cup {NoVal}]
Records == {None} \cup {Some(m) : m \in Hashes}
FieldsOf(rec) == IF rec.some THEN {f \in Fields : rec.map[f] # NoVal} ELSE {}

\* ObjectMap of a row: {"key": <source key>, "value": <field value>}; NoRow is
\* HashMap::get returning None.
NoRow == [key |-> "", value |-> NoVal]
Rows == [key : StoreKeys, value : Values]
EmptyCache == [f \in Fields |-> NoRow]
Caches == [Fields -> Rows \cup {NoRow}]

\* RedisConfig: host, keys, sentinel_master (password and db do not change the
\* control flow).
KeyLists == {<< >>, <<"A", "B">>}
Configs == [host : {"", "h"}, keys : KeyLists, sentinel_master : {"", "m"}]

\* No tracked change: the value of lastSet when the last change set no field on
\* the connection the task holds now.
NoSet == [key |-> "", field |-> "", value |-> NoVal]

\* The store as the server starts with it.
InitStore == [k \in StoreKeys |->
                 IF k = "A" THEN Some([f \in Fields |-> 1])
                 ELSE Some([f \in Fields |-> IF f = "f" THEN 2 ELSE NoVal])]

VARIABLES
    table,      \* outcome of Redis::new: "none" (not called), "ok", "err", "panic"
    config,     \* the RedisConfig handed to Redis::new
    cache,      \* Arc<RwLock<HashMap<String, ObjectMap>>>: the map
    lock,       \* the RwLock: [writer |-> BOOLEAN, readers |-> set of readers]
    store,      \* the external store: key -> hash or None
    changes,    \* changes the store has undergone
    lastSet,    \* history: the last change, when it set a field on this connection
    pc,         \* the position of the spawned task
    attempts,   \* connection attempts made
    slept,      \* seconds the task has spent in tokio::time::sleep
    idx,        \* index into keys of the running `for key in &keys` loop
    phase,      \* "boot" (lines 21-35) or "stream" (lines 77-91)
    curKey,     \* the key whose hash is being materialized ("" outside the loop)
    datas,      \* the reply of HGETALL the loop over its fields consumes
    pending,    \* fields of datas the `for (k, v) in datas` loop has not visited
    fetched,    \* keys fetched and materialized on the current connection
    subs,       \* patterns registered with PSUBSCRIBE on the current connection
    queue,      \* push messages sent to the channel and not received yet
    lastMat,    \* history: per lookup key, the row of the last insert for it
    failN,      \* retry scenario: the number of leading failed connections
    mat,        \* materializer runs: the cache before the last run, runs so far
    rpc,        \* per reader: "idle" or "locked" (holds the read lock)
    rcond,      \* per reader: the condition list of its find_table_row call
    rres,       \* per reader: the outcome of its last call, a find_table_row
    rrows,      \* per reader: the outcome of its last call, a find_table_rows
    api,        \* the last add_index, index_fields or needs_reload call
    tasks,      \* tasks Redis::new and clones have spawned for this cache
    handles     \* Redis values that share this cache (the table and its clones)

tableVars == <<table, config, tasks, handles>>
callVars == <<rrows, api>>
storeVars == <<store, changes, lastSet>>
taskVars == <<pc, attempts, slept, idx, phase, curKey, datas, pending, fetched, subs>>
readerVars == <<rpc, rcond, rres>>
scenVars == <<failN, mat>>
vars == <<table, config, cache, lock, store, changes, lastSet, pc, attempts, slept, idx,
          phase, curKey, datas, pending, fetched, subs, queue, lastMat, failN,
          mat, rpc, rcond, rres, rrows, api, tasks, handles>>

\* ------------------------------------------------------------------ lookups
\* Condition of vector_lib::enrichment: Equals {field, value} or another variant.
\* value is a vrl Value: Bytes, Integer or Null.
LookupValues == {[t |-> "Bytes", v |-> "f"], [t |-> "Bytes", v |-> "g"],
                 [t |-> "Bytes", v |-> "h"], [t |-> "Integer", v |-> "7"],
                 [t |-> "Null", v |-> ""]}
Equals(field, value) == [op |-> "Equals", field |-> field, value |-> value]
BetweenDates(field) == [op |-> "BetweenDates", field |-> field,
                        value |-> [t |-> "Null", v |-> ""]]

\* Value::to_string_lossy: the text of Bytes, the decimal text of an Integer,
\* "null" for Null.
to_string_lossy(value) ==
    CASE value.t = "Bytes" -> value.v
      [] value.t = "Integer" -> value.v
      [] OTHER -> "null"

\* Result<ObjectMap, String>
Ok(row) == [ok |-> TRUE, row |-> row, err |-> ""]
Err(msg) == [ok |-> FALSE, row |-> NoRow, err |-> msg]
NoOutcome == Err("")
NotFound == Err("No value found")
Rejected == Err("Only equality condition is allowed")
\* Result<Vec<ObjectMap>, String>
OkRows(rows) == [ok |-> TRUE, rows |-> rows, err |-> ""]
ErrRows(msg) == [ok |-> FALSE, rows |-> << >>, err |-> msg]
NoRowsOutcome == ErrRows("")

\* A faulty lookup: rows are served only while the task holds a connection.
lookup_WhileConnected(c, field) ==
    IF pc \in {"sleep", "connect"} \/ field \notin DOMAIN c THEN NoRow ELSE c[field]

\* Redis::lookup: self.cache.read().unwrap().get(field).cloned()
lookup(c, field) == IF field \in DOMAIN c THEN c[field] ELSE NoRow

\* Whether find_table_row goes on to Redis::lookup: condition.first() is
\* Some(Condition::Equals {field, ..}) with *field == "field".
ReachesLookup(condition) ==
    /\ condition # << >>
    /\ Head(condition).op = "Equals"
    /\ Head(condition).field = "field"

\* Table::find_table_row on the cache content c.
find_table_row(c, condition) ==
    IF condition # << >> /\ Head(condition).op = "Equals"
    THEN IF Head(condition).field = "field"
         THEN LET obj_map == lookup(c, to_string_lossy(Head(condition).value))
              IN  IF obj_map # NoRow THEN Ok(obj_map) ELSE NotFound
         ELSE Rejected
    ELSE Rejected

\* self.find_table_row(case, condition, select, index).map(|row| vec![row]):
\* map touches the Ok value only, an Err passes through.
find_table_rows(c, condition) ==
    LET one == find_table_row(c, condition)
    IN  IF one.ok THEN OkRows(<<one.row>>) ELSE ErrRows(one.err)

\* Result<IndexHandle, String>
OkHandle(n) == [ok |-> TRUE, handle |-> n, err |-> ""]
ErrHandle(msg) == [ok |-> FALSE, handle |-> 0, err |-> msg]
Cases == {"Sensitive", "Insensitive"}
IndexFields == {<< >>, <<"field">>, <<"other">>}

\* A faulty add_index: only the one field lookups accept can be indexed.
add_index_Checked(case, fields) ==
    IF fields = <<"field">> THEN OkHandle(0) ELSE ErrHandle("Unknown field")

\* Ok(IndexHandle(0)), the arguments are not looked at.
add_index(case, fields) == OkHandle(0)
\* Vec::new()
index_fields == << >>
needs_reload == FALSE

\* What an index or reload call has returned.
Call(op, case, fields, handle, list, reload) ==
    [op |-> op, case |-> case, fields |-> fields, handle |-> handle, list |-> list,
     reload |-> reload]
NoCall == Call("", "", << >>, ErrHandle(""), << >>, FALSE)

\* ------------------------------------------------------------------ cache
\* A faulty insert: the map is rebuilt with the one row.
CacheInsert_Rebuild(c, k, obj) == [x \in DOMAIN c |-> IF x = k THEN obj ELSE NoRow]
\* A faulty insert: entry(k).or_insert(obj), the first row of k stays.
CacheInsert_IfAbsent(c, k, obj) == IF c[k] = NoRow THEN [c EXCEPT ![k] = obj] ELSE c

\* HashMap::insert under the write lock: replaces the row of k.
\* A faulty insert: the "value" entry of the row in place is overwritten.
CacheInsert_InPlace(c, k, obj) == [c EXCEPT ![k].value = obj.value]

CacheInsert(c, k, obj) == [c EXCEPT ![k] = obj]

\* The row the materializing loops build for field k of the hash of key.
RowOf(key, rec, k) == [key |-> key, value |-> rec.map[k]]

\* `if let Some(datas) = datas { for (k, v) in datas { ...insert... } }` run to
\* its end on cache content c; the order of a HashMap's iteration is arbitrary
\* and its keys are distinct.
RECURSIVE MaterializeFields(_, _, _, _)
MaterializeFields(c, key, rec, todo) ==
    IF todo = {} THEN c
    ELSE LET k == CHOOSE x \in todo : TRUE
         IN  MaterializeFields(CacheInsert(c, k, RowOf(key, rec, k)), key, rec,
                               todo \ {k})
\* A faulty materializer: a reply of None removes the rows of the key.
Materialize_ClearOnNone(c, key, rec) ==
    IF rec.some THEN MaterializeFields(c, key, rec, FieldsOf(rec))
    ELSE [f \in DOMAIN c |-> IF c[f].key = key THEN NoRow ELSE c[f]]
Materialize(c, key, rec) == MaterializeFields(c, key, rec, FieldsOf(rec))

\* ------------------------------------------------------------------ pushes
\* redis::PushInfo {kind, data}; an element of data is a redis::Value: a
\* BulkString (valid UTF-8 or not, with the "__keyspace@<db>__:" prefix or not)
\* or another variant.
Bulk(pre, s) == [t |-> "BulkString", utf8 |-> TRUE, pre |-> pre, s |-> s]
BadBulk == [t |-> "BulkString", utf8 |-> FALSE, pre |-> FALSE, s |-> ""]
IntValue == [t |-> "Int", utf8 |-> TRUE, pre |-> FALSE, s |-> ""]
Push(kind, data) == [kind |-> kind, data |-> data]
\* The keyspace notification of a change of key: pattern, channel, event.
Notification(key) == Push("PMessage", <<Bulk(TRUE, key), Bulk(TRUE, key), Bulk(FALSE, "hset")>>)
\* Other pushes the connection can deliver: the disconnect signal, the
\* confirmation of a PSUBSCRIBE, a PMessage whose channel is not UTF-8.
OtherPushes == {Push("Disconnection", << >>),
                Push("PSubscribe", <<Bulk(TRUE, "A"), IntValue>>),
                Push("PMessage", <<Bulk(TRUE, "A"), BadBulk>>)}

\* String::from_utf8(s).unwrap() panics on a BulkString that is not UTF-8; the
\* filter_map is collected in full, so every element is decoded.
DecodePanics(data) ==
    \E n \in 1..Len(data) : data[n].t = "BulkString" /\ ~data[n].utf8
\* The elements that carry the prefix, prefix stripped, in order.
PrefixedKeys(data) ==
    SelectSeq(data, LAMBDA v : v.t = "BulkString" /\ v.pre)
\* A faulty choice of the key: the last element that carries the prefix.
NotifiedKey_Last(data) ==
    IF PrefixedKeys(data) = << >> THEN ""
    ELSE PrefixedKeys(data)[Len(PrefixedKeys(data))].s

\* .collect::<Vec<String>>().first().cloned(): "" stands for None.
NotifiedKey(data) ==
    IF PrefixedKeys(data) = << >> THEN "" ELSE Head(PrefixedKeys(data)).s

\* ------------------------------------------------------------------ start
Readers == {"r1"}
Unlocked == [writer |-> FALSE, readers |-> {}]

\* Everything but the configuration, the cache and the scenario.
InitRest ==
    /\ table = "none"
    /\ lock = Unlocked
    /\ store = InitStore
    /\ changes = 0
    /\ lastSet = NoSet
    /\ pc = "unspawned"
    /\ attempts = 0
    /\ slept = 0
    /\ idx = 0
    /\ phase = "boot"
    /\ curKey = ""
    /\ datas = None
    /\ pending = {}
    /\ fetched = {}
    /\ subs = {}
    /\ queue = << >>
    /\ rpc = [r \in Readers |-> "idle"]
    /\ rcond = [r \in Readers |-> << >>]
    /\ rres = [r \in Readers |-> NoOutcome]
    /\ rrows = [r \in Readers |-> NoRowsOutcome]
    /\ api = NoCall
    /\ tasks = 0
    /\ handles = 0

Init ==
    /\ config \in Configs
    /\ cache = EmptyCache
    /\ lastMat = EmptyCache
    /\ failN = 0
    /\ mat = [prev |-> EmptyCache, n |-> 0]
    /\ InitRest

\* ------------------------------------------------------------------ Redis::new
\* A faulty constructor: the key list is not validated.
NewOutcome_NoKeysCheck(cfg, sentinelBuilds, clientOpens) ==
    IF cfg.host = "" THEN "err"
    ELSE IF cfg.sentinel_master # ""
         THEN IF sentinelBuilds THEN "ok" ELSE "panic"
         ELSE IF clientOpens THEN "ok" ELSE "err"

\* The outcome of Redis::new(cfg): "err" for an Err return, "panic" for the
\* unwrap of a failed SentinelClient::build, "ok" for Ok(Self).
NewOutcome(cfg, sentinelBuilds, clientOpens) ==
    IF cfg.host = "" THEN "err"
    ELSE IF cfg.keys = << >> THEN "err"
    ELSE IF cfg.sentinel_master # ""
         THEN IF sentinelBuilds THEN "ok" ELSE "panic"
         ELSE IF clientOpens THEN "ok" ELSE "err"

\* Where control is once Redis::new has returned Ok: tokio::spawn has been
\* called and the task is about to ask for its first connection.
TaskAfterNew == "connect"

New ==
    /\ table = "none"
    /\ \E sentinelBuilds \in BOOLEAN, clientOpens \in BOOLEAN :
          LET r == NewOutcome(config, sentinelBuilds, clientOpens)
          IN  /\ table' = r
              /\ pc' = IF r = "ok" THEN TaskAfterNew ELSE pc
              /\ tasks' = IF r = "ok" THEN 1 ELSE 0
              /\ handles' = IF r = "ok" THEN 1 ELSE 0
    /\ UNCHANGED <<config, callVars, cache, lock, storeVars, attempts, slept, idx, phase,
                   curKey, datas, pending, fetched, subs, queue, lastMat, scenVars,
                   rpc, rcond, rres>>

\* A faulty clone: it spawns a task of its own on the shared cache.
TasksAfterClone_Spawn(n) == n + 1

\* #[derive(Clone)]: the clone copies the configuration and the Arc, and runs
\* nothing.
TasksAfterClone(n) == n

\* table.clone()
Clone ==
    /\ table = "ok"
    /\ handles < MaxHandles
    /\ handles' = handles + 1
    /\ tasks' = TasksAfterClone(tasks)
    /\ UNCHANGED <<table, config, callVars, cache, lock, storeVars, taskVars, queue,
                   lastMat, scenVars, readerVars>>

\* ------------------------------------------------------------------ the task
keys == config.keys

\* A faulty error arm: the loop continues without the sleep.
AfterError_NoSleep == "connect"

\* Where the task goes after an error: the connection failure arm (lines
\* 230-234) and the Err arm of subscribe's result (lines 244-247) both sleep.
AfterError == "sleep"

\* subscribe returned Err (or the connection attempt failed): the connection
\* and the receiver are dropped.
Fail ==
    /\ pc' = AfterError
    /\ subs' = {}
    /\ queue' = << >>
    /\ fetched' = {}
    /\ idx' = 0
    /\ phase' = "boot"
    /\ curKey' = ""
    /\ lastSet' = NoSet
    /\ UNCHANGED <<tableVars, callVars, cache, lock, store, changes, slept, datas, pending,
                   lastMat, scenVars, readerVars>>

\* A faulty restart: a connection made after an earlier attempt has filled
\* the cache skips the bootstrap loop.
ConnectOk_Resume ==
    /\ pc = "connect"
    /\ attempts < MaxAttempts
    /\ attempts' = attempts + 1
    /\ pc' = IF cache # EmptyCache THEN "psub" ELSE "fetch"
    /\ phase' = "boot"
    /\ idx' = 1
    /\ subs' = {}
    /\ queue' = << >>
    /\ fetched' = {}
    /\ UNCHANGED <<tableVars, callVars, cache, lock, storeVars, slept, curKey, datas,
                   pending, lastMat, scenVars, readerVars>>

\* get_multiplexed_async_connection_with_config / get_async_connection_with_config
\* returns Ok(conn): subscribe starts its first loop.
ConnectOk ==
    /\ pc = "connect"
    /\ attempts < MaxAttempts
    /\ attempts' = attempts + 1
    /\ pc' = "fetch"
    /\ phase' = "boot"
    /\ idx' = 1
    /\ subs' = {}
    /\ queue' = << >>
    /\ fetched' = {}
    /\ UNCHANGED <<tableVars, callVars, cache, lock, storeVars, slept, curKey, datas, pending,
                   lastMat, scenVars, readerVars>>

ConnectFail ==
    /\ pc = "connect"
    /\ attempts < MaxAttempts
    /\ attempts' = attempts + 1
    /\ Fail

\* tokio::time::sleep(RETRY_AFTER).await; continue
SleepDone ==
    /\ pc = "sleep"
    /\ slept' = slept + RETRY_AFTER
    /\ pc' = "connect"
    /\ UNCHANGED <<tableVars, callVars, cache, lock, storeVars, attempts, idx, phase, curKey,
                   datas, pending, fetched, subs, queue, lastMat, scenVars, readerVars>>

\* Where control goes when the `for (k, v) in datas` loop of phase ph ends (or
\* datas is None): the next key of the bootstrap loop, the psubscribe loop after
\* its last key, or back to pubsub.recv().
AfterRecord(ph, i) ==
    IF ph = "boot"
    THEN IF i < Len(keys) THEN [pc |-> "fetch", idx |-> i + 1]
         ELSE [pc |-> "psub", idx |-> 1]
    ELSE [pc |-> "recv", idx |-> i]

\* HGETALL key answered with reply: the loop over its fields starts.
Fetched(key, reply) ==
    /\ pending' = FieldsOf(reply)
    /\ IF FieldsOf(reply) = {}
       THEN /\ pc' = AfterRecord(phase, idx).pc
            /\ idx' = AfterRecord(phase, idx).idx
            /\ fetched' = IF phase = "boot" THEN fetched \cup {key} ELSE fetched
            /\ curKey' = ""
            /\ datas' = None
       ELSE /\ pc' = "wlock"
            /\ curKey' = key
            /\ datas' = reply
            /\ UNCHANGED <<idx, fetched>>
    /\ UNCHANGED <<tableVars, callVars, cache, lock, storeVars, attempts, slept, phase, subs,
                   queue, lastMat, scenVars, readerVars>>

\* The bootstrap HGETALL of keys[idx] (lines 22-26).
BootFetchOk ==
    /\ pc = "fetch"
    /\ Fetched(keys[idx], store[keys[idx]])

\* A faulty bootstrap: a key whose HGETALL fails is skipped.
BootFetchFail_Skip ==
    /\ pc = "fetch"
    /\ pc' = AfterRecord(phase, idx).pc
    /\ idx' = AfterRecord(phase, idx).idx
    /\ UNCHANGED <<tableVars, callVars, cache, lock, storeVars, attempts, slept, phase,
                   curKey, datas, pending, fetched, subs, queue, lastMat, scenVars,
                   readerVars>>

\* The bootstrap HGETALL of keys[idx] returns Err: subscribe returns it.
BootFetchFail ==
    /\ pc = "fetch"
    /\ UNCHANGED attempts
    /\ Fail

\* cache.write(): granted when no reader and no writer holds the lock.
AcquireWrite ==
    /\ pc = "wlock"
    /\ ~lock.writer
    /\ lock.readers = {}
    /\ lock' = [lock EXCEPT !.writer = TRUE]
    /\ pc' = "insert"
    /\ UNCHANGED <<tableVars, callVars, cache, storeVars, attempts, slept, idx, phase, curKey,
                   datas, pending, fetched, subs, queue, lastMat, scenVars, readerVars>>

\* A faulty insert statement: the write guard outlives it.
AfterInsert_Held(l) == l

\* The lock once the insert statement has ended: the temporary write guard is
\* dropped.
AfterInsert(l) == [l EXCEPT !.writer = FALSE]

\* .insert(k.clone(), obj) for one field of datas, then the guard is dropped.
Insert ==
    /\ pc = "insert"
    /\ \E k \in pending :
          /\ cache' = CacheInsert(cache, k, RowOf(curKey, datas, k))
          /\ lastMat' = [lastMat EXCEPT ![k] = [key |-> curKey, value |-> datas.map[k]]]
          /\ pending' = pending \ {k}
          /\ IF pending \ {k} = {}
             THEN /\ pc' = AfterRecord(phase, idx).pc
                  /\ idx' = AfterRecord(phase, idx).idx
                  /\ fetched' = IF phase = "boot" THEN fetched \cup {curKey} ELSE fetched
                  /\ curKey' = ""
                  /\ datas' = None
             ELSE /\ pc' = "wlock"
                  /\ UNCHANGED <<idx, fetched, curKey, datas>>
    /\ lock' = AfterInsert(lock)
    /\ UNCHANGED <<tableVars, callVars, storeVars, attempts, slept, phase, subs, queue, scenVars,
                   readerVars>>

\* A faulty psubscribe loop: the consume loop starts after the first psubscribe.
AfterPsub_First(i) == [pc |-> "recv", idx |-> i, phase |-> "stream"]

\* Where control goes after psubscribe of keys[i] succeeded (lines 36-42).
AfterPsub(i) ==
    IF i < Len(keys) THEN [pc |-> "psub", idx |-> i + 1, phase |-> "boot"]
    ELSE [pc |-> "recv", idx |-> i, phase |-> "stream"]

PsubOk ==
    /\ pc = "psub"
    /\ subs' = subs \cup {keys[idx]}
    /\ pc' = AfterPsub(idx).pc
    /\ idx' = AfterPsub(idx).idx
    /\ phase' = AfterPsub(idx).phase
    /\ UNCHANGED <<tableVars, callVars, cache, lock, storeVars, attempts, slept, curKey, datas,
                   pending, fetched, queue, lastMat, scenVars, readerVars>>

PsubFail ==
    /\ pc = "psub"
    /\ UNCHANGED attempts
    /\ Fail

\* What the loop body does with a received push (lines 44-92): "fail" for a
\* Disconnection, "panic" for the unwrap of a failed from_utf8, "fetch" when a
\* key was decoded, "skip" otherwise.
OnPush(msg) ==
    IF msg.kind = "Disconnection" THEN "fail"
    ELSE IF msg.data # << >> /\ msg.kind = "PMessage"
         THEN IF DecodePanics(msg.data) THEN "panic"
              ELSE IF NotifiedKey(msg.data) # "" THEN "fetch" ELSE "skip"
         ELSE "skip"

\* pubsub.recv() returned Some(msg).
Recv ==
    /\ pc = "recv"
    /\ queue # << >>
    /\ LET msg == Head(queue)
           todo == OnPush(msg)
       IN  IF todo = "fail"
           THEN /\ UNCHANGED attempts
                /\ Fail
           ELSE /\ queue' = Tail(queue)
                /\ pc' = CASE todo = "panic" -> "panicked"
                           [] todo = "fetch" -> "sfetch"
                           [] OTHER -> "recv"
                /\ curKey' = IF todo = "fetch" THEN NotifiedKey(msg.data) ELSE curKey
                /\ UNCHANGED <<tableVars, callVars, cache, lock, storeVars, attempts, slept, idx,
                               phase, datas, pending, fetched, subs, lastMat, scenVars,
                               readerVars>>

\* A faulty stream end: the task goes for a new connection at once.
RecvNone_NoDelay ==
    /\ pc = "recv"
    /\ queue = << >>
    /\ pc' = "connect"
    /\ subs' = {}
    /\ queue' = << >>
    /\ fetched' = {}
    /\ idx' = 0
    /\ phase' = "boot"
    /\ curKey' = ""
    /\ lastSet' = NoSet
    /\ UNCHANGED <<tableVars, callVars, cache, lock, store, changes, attempts, slept,
                   datas, pending, lastMat, scenVars, readerVars>>

\* pubsub.recv() returned None: the sender is gone and the channel is empty
\* (lines 93-100).
RecvNone ==
    /\ pc = "recv"
    /\ queue = << >>
    /\ UNCHANGED attempts
    /\ Fail

\* The HGETALL of the notified key (lines 78-82).
StreamFetchOk ==
    /\ pc = "sfetch"
    /\ Fetched(curKey, IF curKey \in DOMAIN store THEN store[curKey] ELSE Some([f \in Fields |-> NoVal]))

StreamFetchFail ==
    /\ pc = "sfetch"
    /\ UNCHANGED attempts
    /\ Fail

\* ------------------------------------------------------------------ the store
\* Whether the task holds a connection (subscribe is running).
Connected == pc \in {"fetch", "wlock", "insert", "psub", "recv", "sfetch"}

\* The commands another client can change the hash rec with, each with the
\* hash it leaves: HSET of one field, HDEL of one field, DEL of the key.
Commands(rec) ==
    {c \in {[op |-> "HSET", field |-> f, value |-> v,
             rec |-> Some([rec.map EXCEPT ![f] = v])] : f \in Fields, v \in Values}
           \cup {[op |-> "HDEL", field |-> f, value |-> NoVal,
                  rec |-> Some([rec.map EXCEPT ![f] = NoVal])] : f \in FieldsOf(rec)}
           \cup {[op |-> "DEL", field |-> "", value |-> NoVal, rec |-> None]} :
        c.rec # rec}

\* Another client changes key k; the server sends the keyspace notification to
\* the connection when a registered pattern matches k.
StoreChange ==
    /\ changes < MaxChanges
    /\ \E k \in StoreKeys :
          /\ k \in subs => Len(queue) < MaxQueue
          /\ \E c \in Commands(store[k]) :
                /\ store' = [store EXCEPT ![k] = c.rec]
                /\ lastSet' = IF c.op = "HSET" /\ Connected
                              THEN [key |-> k, field |-> c.field, value |-> c.value]
                              ELSE NoSet
          /\ queue' = IF k \in subs THEN Append(queue, Notification(k)) ELSE queue
    /\ changes' = changes + 1
    /\ UNCHANGED <<tableVars, callVars, cache, lock, taskVars, lastMat, scenVars, readerVars>>

\* The connection delivers a push the server sends for another reason than
\* a change of a hash.
PushArrives(msgs) ==
    /\ Connected
    /\ Len(queue) < MaxQueue
    /\ \E msg \in msgs : queue' = Append(queue, msg)
    /\ UNCHANGED <<tableVars, callVars, cache, lock, storeVars, taskVars, lastMat, scenVars,
                   readerVars>>

\* ------------------------------------------------------------------ readers
\* Condition lists the pipeline calls find_table_row with.
CallConds == {<<Equals("field", [t |-> "Bytes", v |-> "f"])>>,
              <<Equals("other", [t |-> "Bytes", v |-> "f"])>>}

\* find_table_row called with a condition list that does not reach
\* Redis::lookup: it returns at once.
CallReject(r, conds) ==
    /\ table = "ok"
    /\ rpc[r] = "idle"
    /\ \E c \in conds :
          /\ ~ReachesLookup(c)
          /\ rcond' = [rcond EXCEPT ![r] = c]
          /\ rres' = [rres EXCEPT ![r] = find_table_row(cache, c)]
    /\ rrows' = [rrows EXCEPT ![r] = NoRowsOutcome]
    /\ UNCHANGED <<tableVars, api, cache, lock, storeVars, taskVars, queue, lastMat, scenVars,
                   rpc>>

\* find_table_row reaches self.cache.read(): granted when no writer holds the
\* lock.
CallLookup(r, conds) ==
    /\ table = "ok"
    /\ rpc[r] = "idle"
    /\ ~lock.writer
    /\ \E c \in conds :
          /\ ReachesLookup(c)
          /\ rcond' = [rcond EXCEPT ![r] = c]
    /\ rpc' = [rpc EXCEPT ![r] = "locked"]
    /\ rres' = [rres EXCEPT ![r] = NoOutcome]
    /\ rrows' = [rrows EXCEPT ![r] = NoRowsOutcome]
    /\ lock' = [lock EXCEPT !.readers = @ \cup {r}]
    /\ UNCHANGED <<tableVars, api, cache, storeVars, taskVars, queue, lastMat, scenVars>>

\* .get(field).cloned(), the read guard is dropped and find_table_row returns.
Get(r) ==
    /\ rpc[r] = "locked"
    /\ rres' = [rres EXCEPT ![r] = find_table_row(cache, rcond[r])]
    /\ rpc' = [rpc EXCEPT ![r] = "idle"]
    /\ lock' = [lock EXCEPT !.readers = @ \ {r}]
    /\ UNCHANGED <<tableVars, callVars, cache, storeVars, taskVars, queue, lastMat, scenVars, rcond>>

\* find_table_rows called with a condition list that does not reach
\* Redis::lookup.
CallRowsReject(r, conds) ==
    /\ table = "ok"
    /\ rpc[r] = "idle"
    /\ \E c \in conds :
          /\ ~ReachesLookup(c)
          /\ rcond' = [rcond EXCEPT ![r] = c]
          /\ rrows' = [rrows EXCEPT ![r] = find_table_rows(cache, c)]
    /\ rres' = [rres EXCEPT ![r] = NoOutcome]
    /\ UNCHANGED <<tableVars, api, cache, lock, storeVars, taskVars, queue, lastMat,
                   scenVars, rpc>>

\* find_table_rows reaches self.cache.read() through find_table_row.
CallRowsLookup(r, conds) ==
    /\ table = "ok"
    /\ rpc[r] = "idle"
    /\ ~lock.writer
    /\ \E c \in conds :
          /\ ReachesLookup(c)
          /\ rcond' = [rcond EXCEPT ![r] = c]
    /\ rpc' = [rpc EXCEPT ![r] = "lockedRows"]
    /\ rres' = [rres EXCEPT ![r] = NoOutcome]
    /\ rrows' = [rrows EXCEPT ![r] = NoRowsOutcome]
    /\ lock' = [lock EXCEPT !.readers = @ \cup {r}]
    /\ UNCHANGED <<tableVars, api, cache, storeVars, taskVars, queue, lastMat, scenVars>>

\* The read guard is dropped, find_table_row returns and find_table_rows maps
\* its result.
GetRows(r) ==
    /\ rpc[r] = "lockedRows"
    /\ rrows' = [rrows EXCEPT ![r] = find_table_rows(cache, rcond[r])]
    /\ rpc' = [rpc EXCEPT ![r] = "idle"]
    /\ lock' = [lock EXCEPT !.readers = @ \ {r}]
    /\ UNCHANGED <<tableVars, api, cache, storeVars, taskVars, queue, lastMat, scenVars,
                   rcond, rres>>

\* ------------------------------------------------------------------ index and reload
AddIndex ==
    /\ table = "ok"
    /\ \E case \in Cases, fields \in IndexFields :
          api' = Call("add_index", case, fields, add_index(case, fields), << >>, FALSE)
    /\ UNCHANGED <<tableVars, rrows, cache, lock, storeVars, taskVars, queue, lastMat,
                   scenVars, readerVars>>

IndexFieldsCall ==
    /\ table = "ok"
    /\ api' = Call("index_fields", "", << >>, ErrHandle(""), index_fields, FALSE)
    /\ UNCHANGED <<tableVars, rrows, cache, lock, storeVars, taskVars, queue, lastMat,
                   scenVars, readerVars>>

NeedsReload ==
    /\ table = "ok"
    /\ api' = Call("needs_reload", "", << >>, ErrHandle(""), << >>, needs_reload)
    /\ UNCHANGED <<tableVars, rrows, cache, lock, storeVars, taskVars, queue, lastMat,
                   scenVars, readerVars>>

\* ------------------------------------------------------------------ Spec
Task ==
    \/ ConnectOk
    \/ ConnectFail
    \/ SleepDone
    \/ BootFetchOk
    \/ BootFetchFail
    \/ AcquireWrite
    \/ Insert
    \/ PsubOk
    \/ PsubFail
    \/ Recv
    \/ RecvNone
    \/ StreamFetchOk
    \/ StreamFetchFail

Next ==
    \/ New
    \/ Task
    \/ StoreChange
    \/ PushArrives(OtherPushes)
    \/ \E r \in Readers : CallReject(r, CallConds)
    \/ \E r \in Readers : CallLookup(r, CallConds)
    \/ \E r \in Readers : Get(r)

Spec == Init /\ [][Next]_vars

\* ------------------------------------------------------------------ retry scenario
\* The connection provider fails its first failN attempts and then succeeds;
\* every fetch and every subscription succeeds, and the store is left alone.
ValidConfigs == {c \in Configs : NewOutcome(c, TRUE, TRUE) = "ok"}

InitRetry ==
    /\ config \in ValidConfigs
    /\ cache = EmptyCache
    /\ lastMat = EmptyCache
    /\ failN \in 0..MaxFailN
    /\ mat = [prev |-> EmptyCache, n |-> 0]
    /\ InitRest

TaskRetry ==
    \/ (attempts < failN /\ ConnectFail)
    \/ (attempts >= failN /\ ConnectOk)
    \/ SleepDone
    \/ BootFetchOk
    \/ AcquireWrite
    \/ Insert
    \/ PsubOk

NextRetry ==
    \/ New
    \/ TaskRetry
    \/ \E r \in Readers : CallReject(r, CallConds)
    \/ \E r \in Readers : CallLookup(r, CallConds)
    \/ \E r \in Readers : Get(r)

\* The runtime keeps polling the spawned task, a reader drops its guard, and the
\* RwLock grants a waiting writer the lock once the readers are gone.
SpecRetry ==
    /\ InitRetry
    /\ [][NextRetry]_vars
    /\ WF_vars(TaskRetry)
    /\ SF_vars(AcquireWrite)
    /\ \A r \in Readers : WF_vars(Get(r))

\* ------------------------------------------------------------------ lookup calls
\* find_table_row on every cache content and every condition list of at most
\* two conditions.
Conditions ==
    {Equals("field", v) : v \in LookupValues}
        \cup {Equals("other", [t |-> "Bytes", v |-> "f"]), BetweenDates("field")}
CondLists ==
    {<< >>} \cup {<<c>> : c \in Conditions}
            \cup {<<c, d>> : c \in Conditions, d \in Conditions}

\* The table is built and has synchronized some content; the task waits to
\* reconnect.
InitLookup ==
    /\ config \in ValidConfigs
    /\ cache \in Caches
    /\ lastMat = cache
    /\ failN = 0
    /\ mat = [prev |-> EmptyCache, n |-> 0]
    /\ table = "ok"
    /\ lock = Unlocked
    /\ store = InitStore
    /\ changes = 0
    /\ lastSet = NoSet
    /\ pc = "sleep"
    /\ attempts = 1
    /\ slept = 0
    /\ idx = 0
    /\ phase = "boot"
    /\ curKey = ""
    /\ datas = None
    /\ pending = {}
    /\ fetched = {}
    /\ subs = {}
    /\ queue = << >>
    /\ rpc = [r \in Readers |-> "idle"]
    /\ rcond = [r \in Readers |-> << >>]
    /\ rres = [r \in Readers |-> NoOutcome]
    /\ rrows = [r \in Readers |-> NoRowsOutcome]
    /\ api = NoCall
    /\ tasks = 1
    /\ handles = 1

NextLookup ==
    \/ \E r \in Readers : CallReject(r, CondLists)
    \/ \E r \in Readers : CallLookup(r, CondLists)
    \/ \E r \in Readers : Get(r)
    \/ \E r \in Readers : CallRowsReject(r, CondLists)
    \/ \E r \in Readers : CallRowsLookup(r, CondLists)
    \/ \E r \in Readers : GetRows(r)

SpecLookup == InitLookup /\ [][NextLookup]_vars

\* ------------------------------------------------------------------ clones
\* The table is cloned while its task runs; the pushes include the notification
\* of a command that left hash A as it was.
ClonePushes == OtherPushes \cup {Notification("A")}

NextClone ==
    \/ New
    \/ Clone
    \/ Task
    \/ PushArrives(ClonePushes)
    \/ \E r \in Readers : CallReject(r, CallConds)
    \/ \E r \in Readers : CallLookup(r, CallConds)
    \/ \E r \in Readers : Get(r)

SpecClone == Init /\ [][NextClone]_vars

\* ------------------------------------------------------------------ pushes
\* One configured key or two; the store holds hash B either way.
PushConfigs == [host : {"h"}, keys : {<<"A">>, <<"A", "B">>}, sentinel_master : {""}]

\* A PMessage is [pattern, channel, payload]. The pattern is one this
\* connection has registered; psubscribe reads the key as a glob pattern, so
\* the channel can name another key of the store than the pattern does.
PatternPushes ==
    {Push("PMessage", <<Bulk(TRUE, p), Bulk(TRUE, c), Bulk(FALSE, "hset")>>) :
        p \in subs, c \in StoreKeys}
\* Pushes of another kind, an empty PMessage, and PMessages none of whose
\* elements carries the prefix.
UnprefixedPushes ==
    {Push("PSubscribe", <<Bulk(TRUE, "A"), IntValue>>),
     Push("SMessage", <<Bulk(TRUE, "A"), Bulk(FALSE, "hset")>>),
     Push("PMessage", << >>),
     Push("PMessage", <<Bulk(FALSE, "hset"), IntValue>>),
     Push("PMessage", <<BadBulk>>)}
StreamPushes == PatternPushes \cup UnprefixedPushes \cup {Push("Disconnection", << >>)}

InitPush ==
    /\ config \in PushConfigs
    /\ cache = EmptyCache
    /\ lastMat = EmptyCache
    /\ failN = 0
    /\ mat = [prev |-> EmptyCache, n |-> 0]
    /\ InitRest

NextPush ==
    \/ New
    \/ Task
    \/ StoreChange
    \/ PushArrives(StreamPushes)

SpecPush == InitPush /\ [][NextPush]_vars

\* ------------------------------------------------------------------ index
\* Every operation of the Table trait, on every cache content.
NextIndex ==
    \/ AddIndex
    \/ IndexFieldsCall
    \/ NeedsReload
    \/ \E r \in Readers : CallReject(r, CallConds)
    \/ \E r \in Readers : CallLookup(r, CallConds)
    \/ \E r \in Readers : Get(r)
    \/ \E r \in Readers : CallRowsReject(r, CallConds)
    \/ \E r \in Readers : CallRowsLookup(r, CallConds)
    \/ \E r \in Readers : GetRows(r)

SpecIndex == InitLookup /\ [][NextIndex]_vars

\* ------------------------------------------------------------------ materializer
\* The materializing loop run to its end on every cache content, key and reply,
\* once and then once more with the same reply.
MatOnce ==
    /\ mat.n \in {0, 2}
    /\ \E key \in StoreKeys, rec \in Records :
          /\ curKey' = key
          /\ datas' = rec
          /\ cache' = Materialize(cache, key, rec)
    /\ mat' = [prev |-> cache, n |-> 1]
    /\ UNCHANGED <<tableVars, callVars, lock, storeVars, pc, attempts, slept, idx, phase, pending,
                   fetched, subs, queue, lastMat, failN, readerVars>>

MatAgain ==
    /\ mat.n = 1
    /\ cache' = Materialize(cache, curKey, datas)
    /\ mat' = [prev |-> cache, n |-> 2]
    /\ UNCHANGED <<tableVars, callVars, lock, storeVars, pc, attempts, slept, idx, phase, curKey,
                   datas, pending, fetched, subs, queue, lastMat, failN, readerVars>>

InitMat ==
    /\ config \in ValidConfigs
    /\ cache \in Caches
    /\ lastMat = cache
    /\ failN = 0
    /\ mat = [prev |-> cache, n |-> 0]
    /\ table = "ok"
    /\ lock = Unlocked
    /\ store = InitStore
    /\ changes = 0
    /\ lastSet = NoSet
    /\ pc = "sleep"
    /\ attempts = 1
    /\ slept = 0
    /\ idx = 0
    /\ phase = "boot"
    /\ curKey = ""
    /\ datas = None
    /\ pending = {}
    /\ fetched = {}
    /\ subs = {}
    /\ queue = << >>
    /\ rpc = [r \in Readers |-> "idle"]
    /\ rcond = [r \in Readers |-> << >>]
    /\ rres = [r \in Readers |-> NoOutcome]
    /\ rrows = [r \in Readers |-> NoRowsOutcome]
    /\ api = NoCall
    /\ tasks = 1
    /\ handles = 1

NextMat == MatOnce \/ MatAgain

SpecMat == InitMat /\ [][NextMat]_vars

\* ------------------------------------------------------------------ properties
KeySet == {keys[n] : n \in 1..Len(keys)}
\* The field a condition list that reaches Redis::lookup looks up.
LookedUp(condition) == to_string_lossy(Head(condition).value)
\* The task waits on the network or sleeps.
NetworkWait == pc \in {"connect", "sleep", "fetch", "psub", "recv", "sfetch"}
\* The task is in its consume loop with nothing left to receive.
Quiescent == pc = "recv" /\ queue = << >>

\* C1: when the connection fails on its first failN attempts and then succeeds,
\* the task reaches its consume loop with every field of every configured key's
\* hash cached, having slept exactly failN times RETRY_AFTER.
AllPresent == \A k \in KeySet : \A f \in FieldsOf(store[k]) : cache[f] # NoRow
C1_RetryForever ==
    (table = "ok") ~> (pc = "recv" /\ AllPresent /\ slept = failN * RETRY_AFTER)
C1_Witness ==
    /\ failN > 0
    /\ attempts = failN + 1
    /\ pc = "recv"
    /\ AllPresent
    /\ cache # EmptyCache
    /\ slept = failN * RETRY_AFTER

\* Exactly one equality condition on the field name "field".
WellFormed(condition) ==
    /\ Len(condition) = 1
    /\ condition[1].op = "Equals"
    /\ condition[1].field = "field"

\* C2: find_table_row returns the rejection, never "No value found" or a row,
\* for every condition list that is not exactly one equality condition on
\* "field", whatever the cache holds.
C2_RejectedShapes ==
    \A r \in Readers :
        (rpc[r] = "idle" /\ rres[r] # NoOutcome /\ ~WellFormed(rcond[r]))
            => rres[r] = Rejected

\* C3: once Redis::new has returned Ok, a lookup of a field that a configured
\* key's hash has held ever since the table was built returns its row, never
\* "No value found".
C3_BootstrapBeforeReady ==
    \A r \in Readers :
        (rpc[r] = "idle" /\ rres[r] = NotFound /\ changes = 0)
            => ~\E k \in KeySet : LookedUp(rcond[r]) \in FieldsOf(store[k])

\* C4: a field of a configured key set to a new value after the task has
\* connected, with no failure and no other change since, reaches the cache: once
\* the task is back in its consume loop with no notification left to process,
\* the row of that field is {key, new value} (when no other configured key
\* holds a field of that name).
C4_ChangePropagation ==
    (/\ Quiescent
     /\ lastSet.key \in KeySet
     /\ \A k2 \in KeySet \ {lastSet.key} : lastSet.field \notin FieldsOf(store[k2]))
        => cache[lastSet.field] = [key |-> lastSet.key, value |-> lastSet.value]

\* C5: on one connection, the task fetches or writes for a notification only
\* after every configured key has been fetched and materialized and every
\* pattern has been registered.
C5_BootstrapBeforeNotification ==
    (phase = "stream" /\ pc \in {"sfetch", "wlock", "insert"})
        => (fetched = KeySet /\ subs = KeySet)
C5_Witness == phase = "stream" /\ pc = "insert" /\ curKey = "A"

\* C6: a lookup key that is cached stays cached, whatever step is taken.
C6_NoDelete ==
    [][\A f \in Fields : cache[f] # NoRow => cache'[f] # NoRow]_vars
\* A cached field no hash holds any more, after the pass that saw it gone.
C6_Witness ==
    /\ Quiescent
    /\ changes > 0
    /\ \E f \in Fields :
          /\ cache[f] # NoRow
          /\ \A k \in StoreKeys : f \notin FieldsOf(store[k])

\* C7: the row of every lookup key is the row built by the last insert for it,
\* whichever keys were materialized before.
C7_LastWriteWins == cache = lastMat
\* Both keys hold f; B was bootstrapped last, then A was materialized again.
C7_Witness ==
    /\ Quiescent
    /\ "B" \in fetched
    /\ "f" \in FieldsOf(store["A"]) \cap FieldsOf(store["B"])
    /\ cache["f"] = [key |-> "A", value |-> store["A"].map["f"]]
    /\ store["A"].map["f"] # store["B"].map["f"]

\* C9: while the task waits on the network or sleeps, no write lock is held, and
\* an idle reader's read lock is granted at once.
C9_ReaderNonBlocking ==
    NetworkWait =>
        /\ ~lock.writer
        /\ \A r \in Readers : rpc[r] = "idle" => ENABLED CallLookup(r, CallConds)
\* The task waits for its second bootstrap HGETALL while a reader holds the lock.
C9_Witness ==
    pc = "fetch" /\ idx = 2 /\ cache # EmptyCache /\ \E r \in Readers : rpc[r] = "locked"

\* C10: a lookup that reaches the cache returns the cached row of the field or
\* "No value found", by the cache content alone, whatever the task is doing; and
\* a step in which the task fails leaves the cache as it is.
C10_ErrorsAbsorbed ==
    [][/\ \A r \in Readers :
              (rpc[r] = "locked" /\ rpc'[r] = "idle")
                  => rres'[r] = IF cache[LookedUp(rcond[r])] = NoRow
                                THEN NotFound
                                ELSE Ok(cache[LookedUp(rcond[r])])
       /\ (pc # "sleep" /\ pc' = "sleep") => cache' = cache]_vars
\* A reader is in its lookup while the task sleeps after a failure, and the row
\* it asks for is cached.
C10_Witness ==
    /\ pc = "sleep"
    /\ \E r \in Readers : rpc[r] = "locked" /\ cache[LookedUp(rcond[r])] # NoRow

\* C8: running the materializing loop again with the same key and reply leaves
\* the cache as the first run left it, and a run with reply None leaves the cache
\* as it was.
C8_IdempotentMaterialization ==
    /\ mat.n = 2 => cache = mat.prev
    /\ (mat.n = 1 /\ ~datas.some) => cache = mat.prev
\* A second run over a reply that overwrote a row of the other key.
C8_Witness ==
    /\ mat.n = 2
    /\ curKey = "B"
    /\ FieldsOf(datas) = {"f"}
    /\ cache["f"].key = "B"
    /\ cache["g"].key = "A"

\* C11: Redis::new on a configuration with an empty host or an empty key list
\* returns Err and nothing else happens, then or later: the cache stays empty,
\* no connection is asked for and no task runs.
C11_ConfigErrorsFatal ==
    (table # "none" /\ (config.host = "" \/ config.keys = << >>))
        => /\ table = "err"
           /\ pc = "unspawned"
           /\ attempts = 0
           /\ cache = EmptyCache
           /\ ~ENABLED New
\* Redis::new has returned Err for a key list that is empty, the host given.
C11_Witness == table = "err" /\ config.host # "" /\ config.keys = << >>

\* C12: when SentinelClient::build fails, Redis::new returns an error; it never
\* panics.
C12_SentinelFailurePropagated == table # "panic"

\* C13: find_table_rows returns the one-row sequence exactly when find_table_row
\* returns that row, the empty sequence exactly when find_table_row reports
\* not-found, and the usage rejection exactly when find_table_row rejects.
C13_FindManyWrapsFindOne ==
    \A r \in Readers :
        rrows[r] # NoRowsOutcome
            => LET one == find_table_row(cache, rcond[r])
               IN  rrows[r] = IF one.ok THEN OkRows(<<one.row>>)
                              ELSE IF one = NotFound THEN OkRows(<< >>)
                              ELSE ErrRows(one.err)

\* C14: add_index returns the same handle for all arguments, index_fields the
\* empty list, needs_reload false; no call of these, of find_table_row or of
\* find_table_rows changes the cache.
C14_IndexReloadConstant ==
    [][/\ cache' = cache
       /\ api'.op = "add_index" => api'.handle = OkHandle(0)
       /\ api'.op = "index_fields" => api'.list = << >>
       /\ api'.op = "needs_reload" => api'.reload = FALSE]_vars
\* add_index was called for a field no lookup accepts, on a cache with rows.
C14_Witness ==
    /\ api.op = "add_index"
    /\ api.fields = <<"other">>
    /\ api.handle.ok
    /\ cache # EmptyCache

\* C15: whatever connection results, fetch results and push messages arrive, the
\* task never stops.
C15_NoTerminalState == pc # "panicked"

\* C16: every attempt that has ended was followed by one sleep of RETRY_AFTER
\* before the next connection was asked for; whatever ends an attempt (a failed
\* connection, fetch or subscription, a Disconnection push or the end of the
\* stream) drops the connection and leads to that sleep, and the sleep to the
\* next attempt.
C16_OneDelayPerError ==
    [][/\ table' = "ok"
            => slept' = RETRY_AFTER * (IF pc' = "connect" THEN attempts' ELSE attempts' - 1)
       /\ ((pc = "connect" \/ Connected) /\ ~(pc' = "connect" \/ Connected') /\ pc' # "panicked")
            => (pc' = "sleep" /\ subs' = {} /\ queue' = << >> /\ slept' = slept)
       /\ (pc = "sleep" /\ pc' # "sleep")
            => (pc' = "connect" /\ slept' = slept + RETRY_AFTER /\ attempts' = attempts)
       /\ (pc = "recv" /\ pc' = "sleep")
            => (fetched' = {} /\ cache' = cache /\ attempts' = attempts)]_vars
\* Two attempts have ended, one of them after it had materialized rows, and the
\* task has slept twice.
C16_Witness ==
    pc = "connect" /\ attempts = 2 /\ slept = 2 * RETRY_AFTER /\ cache # EmptyCache

\* C17: subscriptions are registered only after every key has been fetched and
\* materialized on this connection, the stream is entered only with every key
\* fetched and every subscription registered, and an attempt that has failed
\* keeps no subscription.
C17_BootstrapAllOrNothing ==
    /\ subs # {} => fetched = KeySet
    /\ (pc \in {"recv", "sfetch"} \/ phase = "stream")
            => (fetched = KeySet /\ subs = KeySet)
    /\ pc = "sleep" => (subs = {} /\ phase = "boot")
\* The first attempt has materialized key A and failed on the fetch of key B.
C17_Witness ==
    /\ pc = "sleep"
    /\ attempts = 1
    /\ changes = 0
    /\ cache["f"].key = "A"
    /\ cache["g"].key = "A"

\* C18: an attempt that obtains a connection starts the bootstrap loop at the
\* first key with nothing fetched and nothing subscribed, whatever the cache
\* holds; during the loop the keys fetched are those before the current one,
\* and the subscriptions and the stream come after all of them.
C18_FullRebootstrap ==
    [][/\ (pc = "connect" /\ pc' \notin {"connect", "sleep"})
            => (pc' = "fetch" /\ idx' = 1 /\ phase' = "boot" /\ fetched' = {}
                /\ subs' = {} /\ queue' = << >>)
       /\ (pc' \in {"fetch", "wlock", "insert"} /\ phase' = "boot")
            => (fetched' = {keys[n] : n \in 1..(idx' - 1)} /\ subs' = {})
       /\ (pc' = "psub" \/ phase' = "stream") => fetched' = KeySet]_vars
\* The second attempt has gone through the whole bootstrap loop again.
C18_Witness ==
    attempts = 2 /\ pc = "psub" /\ fetched = KeySet /\ subs = {} /\ slept = RETRY_AFTER

\* C19: a table that was built has one task, however often it is cloned, and a
\* table that was not built has none; the cache changes only in a step of that
\* task, made while it holds the write lock alone, and the write lock is held
\* by nobody but that task in its insert statement.
C19_SingleWriter ==
    [][/\ tasks' = IF table' = "ok" THEN 1 ELSE 0
       /\ cache' # cache
            => /\ pc = "insert" /\ pc' # "insert"
               /\ lock.writer /\ lock.readers = {} /\ ~lock'.writer
               /\ readerVars' = readerVars /\ handles' = handles
       /\ lock'.writer => pc' = "insert"]_vars
\* The table has been cloned and the one task is writing a row.
C19_Witness == handles = 2 /\ tasks = 1 /\ pc = "insert" /\ lock.writer /\ cache # EmptyCache

C21_RowsNameConfiguredKeys ==
    \A f \in Fields : cache[f] # NoRow => cache[f].key \in KeySet
\* With A the one configured key, the first attempt has taken a notification
\* and written the value of field f that hash A got after the bootstrap.
C21_Witness ==
    /\ keys = <<"A">>
    /\ attempts = 1
    /\ phase = "stream"
    /\ cache["f"] = [key |-> "A", value |-> 2]

\* A push that is no Disconnection and no PMessage with data, or a PMessage
\* none of whose elements carries the prefix.
Irrelevant(msg) ==
    /\ msg.kind # "Disconnection"
    /\ \/ ~(msg.data # << >> /\ msg.kind = "PMessage")
       \/ PrefixedKeys(msg.data) = << >>

\* C22: when the task, streaming, receives an irrelevant push, it fetches
\* nothing, the cache stays as it is and the task goes on waiting in
\* pubsub.recv() on the same connection with the same subscriptions.
C22_IrrelevantPushesIgnored ==
    [][(pc = "recv" /\ queue # << >> /\ Len(queue') < Len(queue)
            /\ Irrelevant(Head(queue)))
        => /\ pc' = "recv"
           /\ queue' = Tail(queue)
           /\ cache' = cache
           /\ subs' = subs
           /\ attempts' = attempts
           /\ phase' = "stream"]_vars

====
